---- MODULE Spec2Model ----
(***************************************************************************)
(* Procure-Flow (src/app.py): a Flask application over four tables (User,  *)
(* Task, Payment, Delivery).  The store is the four tables; every route    *)
(* handler is one action, except task_new, which commits twice and is      *)
(* therefore two steps with the store observable in between.               *)
(*                                                                         *)
(* Conventions.  A form is a function from the field names it carries to   *)
(* strings, so 'k in form' is k \in DOMAIN form.  Python's None is the     *)
(* value None for text and NoDate for dates.  Time advances in whole days: *)
(* `now` is both datetime.utcnow() and date.today().  Primary keys are     *)
(* autoincrement, rows are never deleted, so a table is a sequence and a   *)
(* row's id is its position.  ORDER BY only orders the rendered lists and  *)
(* is not modelled: result lists are in id order.                          *)
(***************************************************************************)
EXTENDS Integers, Sequences, FiniteSets, TLC

VARIABLES users, tasks, payments, deliveries, session, now, inflight, req, resp

vars == <<users, tasks, payments, deliveries, session, now, inflight, req, resp>>

store == <<users, tasks, payments, deliveries>>

-----------------------------------------------------------------------------
(* Bounds *)

MaxNow == 3

MaxTasks == 2

MaxUsers == 3

MaxInFlight == 1

-----------------------------------------------------------------------------
(* Values *)

None == "None"

NoDate == 0

Truthy(s) == s # None /\ s # ""

Get(form, k) == IF k \in DOMAIN form THEN form[k] ELSE None

GetDefault(form, k, d) == IF k \in DOMAIN form THEN form[k] ELSE d

EmptyForm == [k \in {} |-> ""]

Ok(v) == [ok |-> TRUE, val |-> v]

Err == [ok |-> FALSE, val |-> 0]

\* float(s) on the numeric strings the forms carry; any other string raises ValueError
FloatTable == ("0" :> 0) @@ ("2" :> 2) @@ ("3" :> 3) @@ ("5" :> 5) @@ ("100" :> 100)

ParseFloat(s) == IF s \in DOMAIN FloatTable THEN Ok(FloatTable[s]) ELSE Err

\* int(s) on the id strings the forms carry; any other string raises ValueError
IntTable == ("1" :> 1) @@ ("2" :> 2) @@ ("3" :> 3) @@ ("4" :> 4) @@ ("9" :> 9)

ParseInt(s) == IF s \in DOMAIN IntTable THEN Ok(IntTable[s]) ELSE Err

\* datetime.strptime(s, '%Y-%m-%d').date(): day number since 2024-05-31
DateTable == ("2024-06-01" :> 1) @@ ("2024-06-02" :> 2) @@ ("2024-06-03" :> 3)

Strptime(s) == IF s \in DOMAIN DateTable THEN Ok(DateTable[s]) ELSE Err

\* generate_password_hash / check_password_hash: a one-way tag of the password
GenerateHash(pw) == <<"hash", pw>>

\* a check_password that accepts every password
CheckPasswordAny(u, pw) == TRUE

CheckPassword(u, pw) == u.password_hash = GenerateHash(pw)

-----------------------------------------------------------------------------
(* Rows *)

User(id, username, pw, role, vendor_name, branch_name) ==
  [id |-> id, username |-> username, password_hash |-> GenerateHash(pw),
   role |-> role, vendor_name |-> vendor_name, branch_name |-> branch_name]

NoUser == [id |-> 0, username |-> None, password_hash |-> <<>>,
           role |-> None, vendor_name |-> None, branch_name |-> None]

\* a Payment shell that leaves amount at the column default
PaymentDefaultAmount(task_id, amount, clock) ==
  [task_id |-> task_id, amount |-> 0, due_date |-> NoDate,
   status |-> "Pending", updated_at |-> clock]

Payment(task_id, amount, clock) ==
  [task_id |-> task_id, amount |-> amount, due_date |-> NoDate,
   status |-> "Pending", updated_at |-> clock]

Delivery(task_id, to_branch, clock) ==
  [task_id |-> task_id, to_branch |-> to_branch, shipped_qty |-> 0,
   received_qty |-> 0, damage_notes |-> None, status |-> "Not Shipped",
   updated_at |-> clock]

\* Query.filter_by(task_id=tid).first(): the id of the first such row, 0 for None
FirstByTask(rows, tid) ==
  LET hits == {i \in 1..Len(rows) : rows[i].task_id = tid}
  IN IF hits = {} THEN 0 ELSE CHOOSE i \in hits : \A j \in hits : i <= j

\* Query.filter(...).all(): the ids in S, in id order
SortedIds(S) ==
  LET F[T \in SUBSET S] ==
        IF T = {} THEN <<>>
        ELSE LET hi == CHOOSE i \in T : \A j \in T : j <= i
             IN Append(F[T \ {hi}], hi)
  IN F[S]

\* the ids of a table's rows
Ids(rows) == 1..Len(rows)

Range(s) == {s[i] : i \in 1..Len(s)}

-----------------------------------------------------------------------------
(* Helpers *)

\* current_user(): session.get('uid'), then User.query.get(uid)
CurrentUser ==
  IF session # 0 /\ session \in 1..Len(users) THEN users[session] ELSE NoUser

NoReq == [handler |-> "none", method |-> "", uid |-> 0, task_id |-> 0, form |-> EmptyForm]

Request(handler, method, tid, form) ==
  [handler |-> handler, method |-> method, uid |-> session, task_id |-> tid, form |-> form]

Response(code, loc) ==
  [code |-> code, loc |-> loc, tasks |-> <<>>, payments |-> <<>>,
   deliveries |-> <<>>, overdue |-> 0]

Page(ts, ps, ds, overdue) ==
  [code |-> 200, loc |-> "", tasks |-> ts, payments |-> ps, deliveries |-> ds,
   overdue |-> overdue]

\* a login_required that does not look at the role
LoginRequiredAnyRole(user, roles) ==
  IF user = NoUser THEN "redirect" ELSE "pass"

\* login_required(roles): "redirect" without a user, "forbidden" for a role outside
\* a non-empty roles list, "pass" otherwise
LoginRequired(user, roles) ==
  IF user = NoUser THEN "redirect"
  ELSE IF roles # {} /\ user.role \notin roles THEN "forbidden"
  ELSE "pass"

\* the response of a request the login_required wrapper stops
Stopped(gate) ==
  IF gate = "redirect" THEN Response(302, "login") ELSE Response(403, "")

-----------------------------------------------------------------------------
(* GET / : the role-scoped dashboard *)

\* the delivery ids index() lists for `user`
DashDeliveries(user) ==
  IF user.role \in {"admin", "procurement"} THEN SortedIds(Ids(deliveries))
  ELSE IF user.role = "vendor"
    THEN LET task_ids == {i \in Ids(tasks) : tasks[i].vendor_id = user.id}
         IN SortedIds({i \in Ids(deliveries) : deliveries[i].task_id \in task_ids})
  ELSE SortedIds({i \in Ids(deliveries) : deliveries[i].to_branch = user.branch_name})

\* the task ids index() lists for `user`
DashTasks(user) ==
  IF user.role \in {"admin", "procurement"} THEN SortedIds(Ids(tasks))
  ELSE IF user.role = "vendor"
    THEN SortedIds({i \in Ids(tasks) : tasks[i].vendor_id = user.id})
  ELSE LET task_ids == {deliveries[i].task_id : i \in Range(DashDeliveries(user))}
       IN SortedIds({i \in Ids(tasks) : i \in task_ids})

\* a payment list that is not scoped
DashPaymentsAll(user) == SortedIds(Ids(payments))

\* the payment ids index() lists for `user`
DashPayments(user) ==
  IF user.role \in {"admin", "procurement"} THEN SortedIds(Ids(payments))
  ELSE IF user.role = "vendor"
    THEN LET task_ids == Range(DashTasks(user))
         IN SortedIds({i \in Ids(payments) : payments[i].task_id \in task_ids})
  ELSE LET task_ids == {deliveries[i].task_id : i \in Range(DashDeliveries(user))}
       IN SortedIds({i \in Ids(payments) : payments[i].task_id \in task_ids})

\* an overdue count that trusts the stored status
OverdueByStatus(ps, today) ==
  Len(SelectSeq(ps, LAMBDA i : payments[i].status = "Overdue"))

\* len([p for p in payments if p.status != 'Paid' and p.due_date and p.due_date < today])
Overdue(ps, today) ==
  Len(SelectSeq(ps, LAMBDA i : /\ payments[i].status # "Paid"
                               /\ payments[i].due_date # NoDate
                               /\ payments[i].due_date < today))

Index ==
  LET user == CurrentUser
      gate == LoginRequired(user, {})
  IN /\ req' = Request("index", "GET", 0, EmptyForm)
     /\ resp' = IF gate # "pass" THEN Stopped(gate)
                ELSE Page(DashTasks(user), DashPayments(user), DashDeliveries(user),
                          Overdue(DashPayments(user), now))
     /\ UNCHANGED <<store, session, now, inflight>>

-----------------------------------------------------------------------------
(* /login, /logout *)

\* str.strip() on the usernames the forms carry
Strip(s) == IF s = " admin " THEN "admin" ELSE s

\* User.query.filter_by(username=username).first(): the id, 0 for None
FirstByUsername(username) ==
  LET hits == {i \in 1..Len(users) : users[i].username = username}
  IN IF hits = {} THEN 0 ELSE CHOOSE i \in hits : \A j \in hits : i <= j

Login(method, form) ==
  LET uid == FirstByUsername(Strip(form["username"]))
      good == uid # 0 /\ CheckPassword(users[uid], form["password"])
  IN /\ req' = Request("login", method, 0, form)
     /\ IF method = "POST" /\ good
          THEN session' = uid /\ resp' = Response(302, "index")
          ELSE session' = session /\ resp' = Response(200, "login")
     /\ UNCHANGED <<store, now, inflight>>

Logout ==
  /\ req' = Request("logout", "GET", 0, EmptyForm)
  /\ session' = 0
  /\ resp' = Response(302, "login")
  /\ UNCHANGED <<store, now, inflight>>

-----------------------------------------------------------------------------
(* /users : admin-only registration *)

Users(method, form) ==
  LET user == CurrentUser
      gate == LoginRequired(user, {"admin"})
      username == Strip(form["username"])
      u == User(Len(users) + 1, username, form["password"], form["role"],
                IF Truthy(Get(form, "vendor_name")) THEN form["vendor_name"] ELSE None,
                IF Truthy(Get(form, "branch_name")) THEN form["branch_name"] ELSE None)
  IN /\ req' = Request("users", method, 0, form)
     /\ IF gate # "pass" THEN resp' = Stopped(gate) /\ users' = users
        ELSE IF method = "GET" THEN resp' = Response(200, "users") /\ users' = users
        ELSE IF {"username", "role", "password"} \ DOMAIN form # {}
          THEN resp' = Response(400, "") /\ users' = users
        \* username is unique: the commit raises IntegrityError
        ELSE IF FirstByUsername(username) # 0
          THEN resp' = Response(500, "") /\ users' = users
        ELSE /\ Len(users) < MaxUsers
             /\ users' = Append(users, u)
             /\ resp' = Response(302, "users")
     /\ UNCHANGED <<tasks, payments, deliveries, session, now, inflight>>

-----------------------------------------------------------------------------
(* /tasks/new : the task insert is committed first, its payment and delivery *)
(* shells in a second commit                                                  *)

Task(form, vendor_id, quantity, price, due, created_by, clock) ==
  [title |-> form["title"], description |-> Get(form, "description"),
   vendor_id |-> vendor_id, quantity |-> quantity,
   unit |-> IF Truthy(Get(form, "unit")) THEN form["unit"] ELSE "pcs",
   price_per_unit |-> price, due_date |-> due, status |-> "Pending",
   created_by |-> created_by, created_at |-> clock]

\* lines 149-160: build the Task from the form and commit it
TaskNew(method, form) ==
  LET user == CurrentUser
      gate == LoginRequired(user, {"admin", "procurement"})
      vendor_id == ParseInt(form["vendor_id"])
      quantity == IF Truthy(Get(form, "quantity")) THEN ParseFloat(form["quantity"]) ELSE Ok(0)
      price == IF Truthy(Get(form, "price_per_unit"))
                 THEN ParseFloat(form["price_per_unit"]) ELSE Ok(0)
      due == IF Truthy(Get(form, "due_date")) THEN Strptime(form["due_date"]) ELSE Ok(NoDate)
      t == Task(form, vendor_id.val, quantity.val, price.val, due.val, user.id, now)
      stop(r) == resp' = r /\ UNCHANGED <<tasks, inflight>>
  IN /\ req' = Request("task_new", method, 0, form)
     /\ IF gate # "pass" THEN stop(Stopped(gate))
        ELSE IF method = "GET" THEN stop(Response(200, "task_new"))
        ELSE IF {"title", "vendor_id"} \ DOMAIN form # {} THEN stop(Response(400, ""))
        ELSE IF ~vendor_id.ok \/ ~quantity.ok \/ ~price.ok \/ ~due.ok
          THEN stop(Response(500, ""))
        ELSE /\ Len(tasks) < MaxTasks
             /\ Cardinality(inflight) < MaxInFlight
             /\ tasks' = Append(tasks, t)
             /\ inflight' = inflight \cup
                  {[task_id |-> Len(tasks) + 1, uid |-> session, form |-> form]}
             /\ resp' = Response(0, "")
     /\ UNCHANGED <<users, payments, deliveries, session, now>>

\* lines 161-166: add the Payment and Delivery shells and commit them
TaskNewShells(r) ==
  LET t == tasks[r.task_id]
  IN /\ r \in inflight
     /\ payments' = Append(payments, Payment(r.task_id, t.quantity * t.price_per_unit, now))
     /\ deliveries' = Append(deliveries,
                        Delivery(r.task_id, GetDefault(r.form, "to_branch", "Main Branch"), now))
     /\ inflight' = inflight \ {r}
     /\ req' = [handler |-> "task_new", method |-> "POST", uid |-> r.uid,
                task_id |-> r.task_id, form |-> r.form]
     /\ resp' = Response(302, "index")
     /\ UNCHANGED <<users, tasks, session, now>>

\* the second commit (line 164) raises: the request ends in an error, and the
\* task committed at line 160 stays
TaskNewFail(r) ==
  /\ r \in inflight
  /\ inflight' = inflight \ {r}
  /\ req' = [handler |-> "task_new", method |-> "POST", uid |-> r.uid,
             task_id |-> r.task_id, form |-> r.form]
  /\ resp' = Response(500, "")
  /\ UNCHANGED <<store, session, now>>

-----------------------------------------------------------------------------
(* /tasks/<id> : the three update blocks, each with its own commit *)

\* a commit with no onupdate on updated_at
CommitNoRefresh(old, new, clock) == new

\* onupdate=datetime.utcnow: the commit writes a row, and refreshes its
\* updated_at, only when a column of the row has changed
Commit(old, new, clock) ==
  IF new = old THEN old ELSE [new EXCEPT !.updated_at = clock]

Done(st) == [st |-> st, code |-> 0]

Abort(st, code) == [st |-> st, code |-> code]

\* update_task without the ownership check of lines 182-183
UpdateTaskAnyVendor(st, user, tid, form) ==
  LET t == st.tasks[tid]
      due == IF Truthy(Get(form, "due_date")) THEN Strptime(form["due_date"])
             ELSE Ok(t.due_date)
  IN IF ~("update_task" \in DOMAIN form /\ user.role \in {"admin", "procurement", "vendor"})
       THEN Done(st)
     ELSE IF ~due.ok THEN Abort(st, 500)
     ELSE Done([st EXCEPT !.tasks[tid] =
                  [@ EXCEPT !.status = GetDefault(form, "status", t.status),
                            !.due_date = due.val]])

\* an update_task that also clears the quantity
UpdateTaskResetQuantity(st, user, tid, form) ==
  LET t == st.tasks[tid]
      due == IF Truthy(Get(form, "due_date")) THEN Strptime(form["due_date"])
             ELSE Ok(t.due_date)
  IN IF ~("update_task" \in DOMAIN form /\ user.role \in {"admin", "procurement", "vendor"})
       THEN Done(st)
     ELSE IF user.role = "vendor" /\ t.vendor_id # user.id THEN Abort(st, 403)
     ELSE IF ~due.ok THEN Abort(st, 500)
     ELSE Done([st EXCEPT !.tasks[tid] =
                  [@ EXCEPT !.status = GetDefault(form, "status", t.status),
                            !.due_date = due.val,
                            !.quantity = 0]])

\* an update_task that writes the row anew and leaves created_at unset
UpdateTaskRewritten(st, user, tid, form) ==
  LET t == st.tasks[tid]
      due == IF Truthy(Get(form, "due_date")) THEN Strptime(form["due_date"])
             ELSE Ok(t.due_date)
  IN IF ~("update_task" \in DOMAIN form /\ user.role \in {"admin", "procurement", "vendor"})
       THEN Done(st)
     ELSE IF user.role = "vendor" /\ t.vendor_id # user.id THEN Abort(st, 403)
     ELSE IF ~due.ok THEN Abort(st, 500)
     ELSE Done([st EXCEPT !.tasks[tid] =
                  [@ EXCEPT !.status = GetDefault(form, "status", t.status),
                            !.due_date = due.val,
                            !.created_at = NoDate]])

\* lines 181-187
UpdateTask(st, user, tid, form) ==
  LET t == st.tasks[tid]
      due == IF Truthy(Get(form, "due_date")) THEN Strptime(form["due_date"])
             ELSE Ok(t.due_date)
  IN IF ~("update_task" \in DOMAIN form /\ user.role \in {"admin", "procurement", "vendor"})
       THEN Done(st)
     ELSE IF user.role = "vendor" /\ t.vendor_id # user.id THEN Abort(st, 403)
     ELSE IF ~due.ok THEN Abort(st, 500)
     ELSE Done([st EXCEPT !.tasks[tid] =
                  [@ EXCEPT !.status = GetDefault(form, "status", t.status),
                            !.due_date = due.val]])

\* lines 188-193; pid = 0 is pay = None
UpdatePayment(st, user, pid, form, clock) ==
  LET pay == st.payments[pid]
      amount == IF Truthy(Get(form, "amount")) THEN ParseFloat(form["amount"])
                ELSE Ok(pay.amount)
      due == IF Truthy(Get(form, "pay_due")) THEN Strptime(form["pay_due"])
             ELSE Ok(pay.due_date)
      new == [pay EXCEPT !.amount = amount.val, !.due_date = due.val,
                         !.status = GetDefault(form, "pay_status", pay.status)]
  IN IF ~("update_payment" \in DOMAIN form /\ user.role \in {"admin", "procurement"})
       THEN Done(st)
     ELSE IF pid = 0 THEN Abort(st, 500)
     ELSE IF ~amount.ok \/ ~due.ok THEN Abort(st, 500)
     ELSE Done([st EXCEPT !.payments[pid] = Commit(pay, new, clock)])

\* update_delivery without the branch check of lines 195-196
UpdateDeliveryAnyBranch(st, user, did, form, clock) ==
  LET deliv == st.deliveries[did]
      shipped == IF Truthy(Get(form, "shipped_qty")) THEN ParseFloat(form["shipped_qty"])
                 ELSE Ok(deliv.shipped_qty)
      received == IF Truthy(Get(form, "received_qty")) THEN ParseFloat(form["received_qty"])
                  ELSE Ok(deliv.received_qty)
      new == [deliv EXCEPT
                !.to_branch = IF Truthy(Get(form, "to_branch")) THEN form["to_branch"]
                              ELSE deliv.to_branch,
                !.shipped_qty = shipped.val,
                !.received_qty = received.val,
                !.damage_notes = Get(form, "damage_notes"),
                !.status = GetDefault(form, "deliv_status", deliv.status)]
  IN IF ~("update_delivery" \in DOMAIN form
          /\ user.role \in {"admin", "procurement", "branch"})
       THEN Done(st)
     ELSE IF did = 0 THEN Abort(st, 500)
     ELSE IF ~shipped.ok \/ ~received.ok THEN Abort(st, 500)
     ELSE Done([st EXCEPT !.deliveries[did] = Commit(deliv, new, clock)])

\* lines 194-203; did = 0 is deliv = None
UpdateDelivery(st, user, did, form, clock) ==
  LET deliv == st.deliveries[did]
      shipped == IF Truthy(Get(form, "shipped_qty")) THEN ParseFloat(form["shipped_qty"])
                 ELSE Ok(deliv.shipped_qty)
      received == IF Truthy(Get(form, "received_qty")) THEN ParseFloat(form["received_qty"])
                  ELSE Ok(deliv.received_qty)
      new == [deliv EXCEPT
                !.to_branch = IF Truthy(Get(form, "to_branch")) THEN form["to_branch"]
                              ELSE deliv.to_branch,
                !.shipped_qty = shipped.val,
                !.received_qty = received.val,
                !.damage_notes = Get(form, "damage_notes"),
                !.status = GetDefault(form, "deliv_status", deliv.status)]
  IN IF ~("update_delivery" \in DOMAIN form
          /\ user.role \in {"admin", "procurement", "branch"})
       THEN Done(st)
     ELSE IF did = 0 THEN Abort(st, 500)
     ELSE IF user.role = "branch" /\ user.branch_name # deliv.to_branch THEN Abort(st, 403)
     ELSE IF ~shipped.ok \/ ~received.ok THEN Abort(st, 500)
     ELSE Done([st EXCEPT !.deliveries[did] = Commit(deliv, new, clock)])

\* lines 179-204: the blocks in order; an abort or an exception ends the request
\* and keeps what the earlier blocks committed
PostTask(st, user, tid, pid, did, form, clock) ==
  LET r1 == UpdateTask(st, user, tid, form)
      r2 == IF r1.code = 0 THEN UpdatePayment(r1.st, user, pid, form, clock) ELSE r1
      r3 == IF r2.code = 0 THEN UpdateDelivery(r2.st, user, did, form, clock) ELSE r2
  IN r3

TaskView(method, tid, form) ==
  LET user == CurrentUser
      gate == LoginRequired(user, {})
      pid == FirstByTask(payments, tid)
      did == FirstByTask(deliveries, tid)
      st == [tasks |-> tasks, payments |-> payments, deliveries |-> deliveries]
      r == PostTask(st, user, tid, pid, did, form, now)
      stop(x) == resp' = x /\ UNCHANGED <<tasks, payments, deliveries>>
  IN /\ req' = Request("task_view", method, tid, form)
     /\ IF gate # "pass" THEN stop(Stopped(gate))
        ELSE IF tid \notin 1..Len(tasks) THEN stop(Response(404, ""))
        ELSE IF method = "GET"
          THEN stop(Page(<<tid>>, IF pid = 0 THEN <<>> ELSE <<pid>>,
                         IF did = 0 THEN <<>> ELSE <<did>>, 0))
        ELSE /\ tasks' = r.st.tasks
             /\ payments' = r.st.payments
             /\ deliveries' = r.st.deliveries
             /\ resp' = IF r.code = 0 THEN Response(302, "task_view")
                        ELSE Response(r.code, "")
     /\ UNCHANGED <<users, session, now, inflight>>

-----------------------------------------------------------------------------
(* /tasks/<id> under concurrent requests.  Each request runs in its own unit *)
(* of work: lines 173-177 load the task, its payment and its delivery into   *)
(* the request's own objects, lines 179-204 work on those objects, and the   *)
(* commit writes the columns whose value differs from the loaded one.  The   *)
(* store is not locked between the load and the commit, so the requests of   *)
(* other clients can commit in between.  The two steps below are a request   *)
(* that carries one marker (one block, one commit).                          *)

\* the UPDATE a commit emits: the columns whose value differs from the loaded one
Flush(cur, loaded, new) ==
  [f \in DOMAIN cur |-> IF new[f] # loaded[f] THEN new[f] ELSE cur[f]]

\* the same for a row with onupdate=datetime.utcnow: an UPDATE stamps updated_at
FlushStamped(cur, loaded, new, clock) ==
  IF new = loaded THEN cur ELSE [Flush(cur, loaded, new) EXCEPT !.updated_at = clock]

\* pay or deliv is None: a row that is never read
NoRow == [task_id |-> 0]

\* lines 172-177: the wrapper's check, then the three loads
TaskViewLoad(tid, form) ==
  LET user == CurrentUser
      gate == LoginRequired(user, {})
      pid == FirstByTask(payments, tid)
      did == FirstByTask(deliveries, tid)
      stop(x) == resp' = x /\ inflight' = inflight
  IN /\ req' = Request("task_view", "POST", tid, form)
     /\ IF gate # "pass" THEN stop(Stopped(gate))
        ELSE IF tid \notin 1..Len(tasks) THEN stop(Response(404, ""))
        ELSE /\ Cardinality(inflight) < MaxInFlight + 1
             /\ inflight' = inflight \cup
                  {[task_id |-> tid, uid |-> session, form |-> form, t |-> tasks[tid],
                    pid |-> pid, pay |-> IF pid = 0 THEN NoRow ELSE payments[pid],
                    did |-> did, deliv |-> IF did = 0 THEN NoRow ELSE deliveries[did]]}
             /\ resp' = Response(0, "")
     /\ UNCHANGED <<store, session, now>>

\* lines 179-204 on the loaded objects, and the commit
TaskViewCommit(r) ==
  LET tid == r.task_id
      loaded == [tasks |-> [tasks EXCEPT ![tid] = r.t],
                 payments |-> IF r.pid = 0 THEN payments
                              ELSE [payments EXCEPT ![r.pid] = r.pay],
                 deliveries |-> IF r.did = 0 THEN deliveries
                                ELSE [deliveries EXCEPT ![r.did] = r.deliv]]
      res == PostTask(loaded, users[r.uid], tid, r.pid, r.did, r.form, now)
  IN /\ r \in inflight
     /\ tasks' = [tasks EXCEPT ![tid] = Flush(@, r.t, res.st.tasks[tid])]
     /\ payments' = IF r.pid = 0 THEN payments
                    ELSE [payments EXCEPT
                            ![r.pid] = FlushStamped(@, r.pay, res.st.payments[r.pid], now)]
     /\ deliveries' = IF r.did = 0 THEN deliveries
                      ELSE [deliveries EXCEPT
                              ![r.did] = FlushStamped(@, r.deliv, res.st.deliveries[r.did], now)]
     /\ inflight' = inflight \ {r}
     /\ req' = [handler |-> "task_view", method |-> "POST", uid |-> r.uid,
                task_id |-> tid, form |-> r.form]
     /\ resp' = IF res.code = 0 THEN Response(302, "task_view") ELSE Response(res.code, "")
     /\ UNCHANGED <<users, session, now>>

-----------------------------------------------------------------------------
(* Time *)

Tick ==
  /\ now < MaxNow
  /\ now' = now + 1
  /\ req' = NoReq
  /\ resp' = Response(0, "")
  /\ UNCHANGED <<store, session, inflight>>

-----------------------------------------------------------------------------
(* Populations and inputs *)

\* the seeded admin (lines 546-552)
Admin == User(1, "admin", "admin123", "admin", None, None)

\* the store after the admin has registered a buyer, two vendors and a branch
SeedUsers ==
  <<Admin,
    User(2, "buyer", "pw2", "procurement", None, None),
    User(3, "acme", "pw3", "vendor", "Acme", None),
    User(4, "bolt", "pw4", "vendor", "Bolt", None),
    User(5, "north", "pw5", "branch", None, "North Branch")>>

Credentials(username, pw) == [username |-> username, password |-> pw]

SeedLogins ==
  {Credentials(SeedUsers[i].username, SeedUsers[i].password_hash[2]) : i \in 1..Len(SeedUsers)}

NoResp == Response(0, "")

InitSeeded ==
  /\ users = SeedUsers
  /\ tasks = <<>>
  /\ payments = <<>>
  /\ deliveries = <<>>
  /\ session = 0
  /\ now = 1
  /\ inflight = {}
  /\ req = NoReq
  /\ resp = NoResp

-----------------------------------------------------------------------------
(* SpecCreate: task creation by every kind of user *)

Order == [title |-> "Widget Order", vendor_id |-> "3", quantity |-> "2",
          price_per_unit |-> "3", to_branch |-> "North Branch"]

Without(form, k) == [x \in DOMAIN form \ {k} |-> form[x]]

With(form, k, v) == [x \in DOMAIN form \cup {k} |-> IF x = k THEN v ELSE form[x]]

NewForms ==
  {Order, Without(Order, "title")}
  \cup {With(Order, "vendor_id", v) : v \in {"1", "9", "x"}}
  \cup {Without(Order, "quantity"), With(Order, "price_per_unit", "abc")}
  \cup {Without(Order, "to_branch")}

CreateLogins == {c \in SeedLogins : c.username \in {"admin", "buyer", "acme"}}

NextCreate ==
  \/ \E c \in CreateLogins : Login("POST", c)
  \/ \E f \in NewForms : TaskNew("POST", f)
  \/ \E r \in inflight : TaskNewShells(r)
  \/ \E r \in inflight : TaskNewFail(r)
  \/ \E tid \in 1..MaxTasks : TaskView("GET", tid, EmptyForm)

SpecCreate == InitSeeded /\ [][NextCreate]_vars

-----------------------------------------------------------------------------
(* The store the update specifications start from: the buyer's task 1 for   *)
(* vendor bolt, whose shells were never written, and the admin's task 2 for *)
(* vendor acme, bound for North Branch                                      *)

ViewTasks ==
  <<Task(With(Order, "vendor_id", "4"), 4, 2, 3, NoDate, 2, 1),
    Task(Order, 3, 2, 3, NoDate, 1, 1)>>

InitView ==
  /\ users = SeedUsers
  /\ tasks = ViewTasks
  /\ payments = <<Payment(2, ViewTasks[2].quantity * ViewTasks[2].price_per_unit, 1)>>
  /\ deliveries = <<Delivery(2, Order["to_branch"], 1)>>
  /\ session = 0
  /\ now = 1
  /\ inflight = {}
  /\ req = NoReq
  /\ resp = NoResp

Marked(marker, fields) == {(marker :> "1") @@ f : f \in fields}

-----------------------------------------------------------------------------
(* SpecTask: update_task requests by every user *)

TaskUpdates ==
  Marked("update_task",
         {EmptyForm,
          [status |-> "Completed"],
          [due_date |-> "2024-06-02"],
          [due_date |-> "06/02/2024"],
          [status |-> "Cancelled", due_date |-> ""],
          [status |-> "In Progress", update_payment |-> "1", amount |-> "5"],
          [status |-> "Completed", update_delivery |-> "1", to_branch |-> "South Branch"]})

NextTask ==
  \/ \E c \in SeedLogins : Login("POST", c)
  \/ \E tid \in 1..(Len(tasks) + 1), f \in TaskUpdates : TaskView("POST", tid, f)
  \/ \E tid \in Ids(tasks) : TaskView("GET", tid, EmptyForm)

SpecTask == InitView /\ [][NextTask]_vars

-----------------------------------------------------------------------------
(* SpecDelivery: update_delivery requests by every user *)

DeliveryUpdates ==
  Marked("update_delivery",
         {EmptyForm,
          [to_branch |-> "South Branch"],
          [to_branch |-> "North Branch", deliv_status |-> "Shipped"],
          [shipped_qty |-> "5", damage_notes |-> "dented"],
          [shipped_qty |-> "abc"],
          [received_qty |-> "5", to_branch |-> ""],
          [update_task |-> "1", status |-> "Completed", received_qty |-> "five"]})

NextDelivery ==
  \/ \E c \in SeedLogins : Login("POST", c)
  \/ \E tid \in 1..(Len(tasks) + 1), f \in DeliveryUpdates : TaskView("POST", tid, f)
  \/ \E tid \in Ids(tasks) : TaskView("GET", tid, EmptyForm)

SpecDelivery == InitView /\ [][NextDelivery]_vars

-----------------------------------------------------------------------------
(* SpecPayment: update_payment requests by every user, over several days *)

PaymentUpdates ==
  Marked("update_payment",
         {EmptyForm,
          [amount |-> "5"],
          [amount |-> "", pay_status |-> "Paid"],
          [pay_due |-> "2024-06-02"],
          [amount |-> "abc", pay_status |-> "Paid"],
          [pay_due |-> "06/02/2024", amount |-> "5"],
          [amount |-> "3", pay_due |-> "2024-06-03", pay_status |-> "Overdue"]})

NextPayment ==
  \/ \E c \in SeedLogins : Login("POST", c)
  \/ \E tid \in 1..(Len(tasks) + 1), f \in PaymentUpdates : TaskView("POST", tid, f)
  \/ \E tid \in Ids(tasks) : TaskView("GET", tid, EmptyForm)
  \/ Tick

SpecPayment == InitView /\ [][NextPayment]_vars

-----------------------------------------------------------------------------
(* SpecDash: the dashboard of every user, on any day, over three tasks: the *)
(* two above and the buyer's task 3 for vendor bolt, bound for Main Branch; *)
(* the admin has set the first payment's due date on day 1                  *)

DashTasksInit ==
  Append(ViewTasks, Task(Without(With(Order, "vendor_id", "4"), "to_branch"), 4, 2, 3, NoDate, 2, 1))

InitDash ==
  /\ users = SeedUsers
  /\ tasks = DashTasksInit
  /\ payments = <<[Payment(2, 6, 1) EXCEPT !.due_date = DateTable["2024-06-02"]],
                  Payment(3, 6, 1)>>
  /\ deliveries = <<Delivery(2, "North Branch", 1), Delivery(3, "Main Branch", 1)>>
  /\ session = 0
  /\ now \in 1..MaxNow
  /\ inflight = {}
  /\ req = NoReq
  /\ resp = NoResp

DashUpdates ==
  Marked("update_payment",
         {[pay_status |-> "Paid"], [pay_status |-> "Overdue", pay_due |-> "2024-06-03"]})
  \cup Marked("update_delivery", {[to_branch |-> "North Branch"], [to_branch |-> "South Branch"]})

NextDash ==
  \/ \E c \in SeedLogins : Login("POST", c)
  \/ \E tid \in Ids(tasks), f \in DashUpdates : TaskView("POST", tid, f)
  \/ Index

SpecDash == InitDash /\ [][NextDash]_vars

-----------------------------------------------------------------------------
(* SpecRace: the admin's and the buyer's update requests on task 2, running *)
(* concurrently                                                              *)

RaceUpdates ==
  Marked("update_payment",
         {[amount |-> "5"],
          [amount |-> "5", pay_status |-> "Paid"],
          [amount |-> "3", pay_status |-> "Pending"]})
  \cup Marked("update_delivery",
              {[shipped_qty |-> "5", deliv_status |-> "Shipped"],
               [shipped_qty |-> "2", deliv_status |-> "Not Shipped"]})

RaceLogins == {c \in SeedLogins : c.username \in {"admin", "buyer"}}

NextRace ==
  \/ \E c \in RaceLogins : Login("POST", c)
  \/ \E f \in RaceUpdates : TaskViewLoad(Len(ViewTasks), f)
  \/ \E r \in inflight : TaskViewCommit(r)

SpecRace == InitView /\ [][NextRace]_vars

-----------------------------------------------------------------------------
(* SpecStatus: status updates, with values inside and outside the columns'  *)
(* enumerations (the comments of lines 46, 55 and 65)                       *)

StatusUpdates ==
  Marked("update_task", {[status |-> "Completed"], [status |-> "Done"]})
  \cup Marked("update_payment", {[pay_status |-> "Paid"], [pay_status |-> "Refunded"]})
  \cup Marked("update_delivery", {[deliv_status |-> "Received"], [deliv_status |-> "Lost"]})

StatusLogins == {c \in SeedLogins : c.username \in {"admin", "acme", "north"}}

NextStatus ==
  \/ \E c \in StatusLogins : Login("POST", c)
  \/ \E tid \in Ids(tasks), f \in StatusUpdates : TaskView("POST", tid, f)
  \/ \E tid \in Ids(tasks) : TaskView("GET", tid, EmptyForm)

SpecStatus == InitView /\ [][NextStatus]_vars

-----------------------------------------------------------------------------
(* SpecBranch: task creation with the destination given, left empty, or     *)
(* left out                                                                  *)

BranchForms == {Order, With(Order, "to_branch", ""), Without(Order, "to_branch")}

BranchLogins == {c \in SeedLogins : c.username \in {"admin", "buyer"}}

NextBranch ==
  \/ \E c \in BranchLogins : Login("POST", c)
  \/ \E f \in BranchForms : TaskNew("POST", f)
  \/ \E r \in inflight : TaskNewShells(r)
  \/ \E tid \in 1..MaxTasks : TaskView("GET", tid, EmptyForm)

SpecBranch == InitSeeded /\ [][NextBranch]_vars

-----------------------------------------------------------------------------
(* SpecReassign: branch user north's delivery updates on task 2, running    *)
(* concurrently with the admin's reassignments of the delivery              *)

ReassignUpdates ==
  Marked("update_delivery",
         {[to_branch |-> "South Branch"],
          [to_branch |-> "North Branch"],
          [shipped_qty |-> "5"],
          [received_qty |-> "2", deliv_status |-> "Received"]})

ReassignLogins == {c \in SeedLogins : c.username \in {"admin", "north"}}

NextReassign ==
  \/ \E c \in ReassignLogins : Login("POST", c)
  \/ \E f \in ReassignUpdates : TaskViewLoad(Len(ViewTasks), f)
  \/ \E r \in inflight : TaskViewCommit(r)

SpecReassign == InitView /\ [][NextReassign]_vars

-----------------------------------------------------------------------------
(* Spec: the application from its first run, with the seeded admin alone *)

Init ==
  /\ users = <<Admin>>
  /\ tasks = <<>>
  /\ payments = <<>>
  /\ deliveries = <<>>
  /\ session = 0
  /\ now = 1
  /\ inflight = {}
  /\ req = NoReq
  /\ resp = NoResp

Registrations ==
  {[username |-> SeedUsers[i].username, password |-> SeedUsers[i].password_hash[2],
    role |-> SeedUsers[i].role, vendor_name |-> SeedUsers[i].vendor_name,
    branch_name |-> IF SeedUsers[i].branch_name = None THEN "" ELSE SeedUsers[i].branch_name]
   : i \in {1, 3, 5}}

FirstLogins ==
  {c \in SeedLogins : c.username \in {"admin", "acme", "north"}}
  \cup {Credentials(" admin ", "admin123"), Credentials("admin", "guess")}

FirstUpdates == Marked("update_task", {[status |-> "Completed"]})

Next ==
  \/ \E c \in FirstLogins : Login("POST", c)
  \/ Login("GET", EmptyForm)
  \/ Logout
  \/ \E f \in Registrations : Users("POST", f)
  \/ Users("GET", EmptyForm)
  \/ TaskNew("POST", Order)
  \/ TaskNew("GET", EmptyForm)
  \/ \E r \in inflight : TaskNewShells(r)
  \/ \E r \in inflight : TaskNewFail(r)
  \/ \E tid \in 1..MaxTasks : TaskView("GET", tid, EmptyForm)
  \/ \E tid \in 1..MaxTasks, f \in FirstUpdates : TaskView("POST", tid, f)
  \/ Index

Spec == Init /\ [][Next]_vars

-----------------------------------------------------------------------------
(* Claims *)

\* C3: task creation is atomic: in every state a request can observe, every
\* Task has exactly one Payment and exactly one Delivery with its task_id, and
\* every Payment and Delivery belongs to an existing Task.
C3_CreationAtomic ==
  /\ \A tid \in 1..Len(tasks) :
       /\ Cardinality({i \in 1..Len(payments) : payments[i].task_id = tid}) = 1
       /\ Cardinality({i \in 1..Len(deliveries) : deliveries[i].task_id = tid}) = 1
  /\ \A i \in 1..Len(payments) : payments[i].task_id \in 1..Len(tasks)
  /\ \A i \in 1..Len(deliveries) : deliveries[i].task_id \in 1..Len(tasks)

\* the number a form field stands for, 0 when it is absent or empty
FieldNumber(form, k) == IF Truthy(Get(form, k)) THEN FloatTable[form[k]] ELSE 0

\* a task_new request has just been answered with the redirect of line 166
Created == req.handler = "task_new" /\ resp.code = 302 /\ resp.loc = "index"

\* C4: after a successful creation with quantity q, price p and destination b,
\* the task has one Payment, with amount q * p and status Pending, and one
\* Delivery, with status "Not Shipped" and to_branch b.
C4_CreationShells ==
  Created =>
    LET ps == {i \in 1..Len(payments) : payments[i].task_id = req.task_id}
        ds == {i \in 1..Len(deliveries) : deliveries[i].task_id = req.task_id}
    IN /\ Cardinality(ps) = 1
       /\ Cardinality(ds) = 1
       /\ \A i \in ps :
            /\ payments[i].amount =
                 FieldNumber(req.form, "quantity") * FieldNumber(req.form, "price_per_unit")
            /\ payments[i].status = "Pending"
       /\ \A i \in ds :
            /\ deliveries[i].status = "Not Shipped"
            /\ "to_branch" \in DOMAIN req.form => deliveries[i].to_branch = req.form["to_branch"]

\* C4's case: the second task is created, after a first whose shells were never
\* written, with quantity 2, price 3 and destination North Branch
C4_Witness ==
  /\ Created
  /\ req.task_id = 2
  /\ Len(payments) = 1
  /\ payments[1].amount = 6
  /\ deliveries[1].to_branch = "North Branch"

\* C7: every Task's vendor_id references an existing User whose role is vendor.
C7_VendorReference ==
  \A tid \in 1..Len(tasks) :
    /\ tasks[tid].vendor_id \in 1..Len(users)
    /\ users[tasks[tid].vendor_id].role = "vendor"

\* the request that has just been answered is a POST to /tasks/<id> of an
\* existing task that carries `marker`, sent by a user of role `role`
PostBy(r, role, marker) ==
  /\ r.handler = "task_view"
  /\ r.method = "POST"
  /\ marker \in DOMAIN r.form
  /\ r.uid \in Ids(users)
  /\ users[r.uid].role = role
  /\ r.task_id \in Ids(tasks)

\* the status and due date an update_task form asks for, given the task's own
AskedStatus(form, t) == IF "status" \in DOMAIN form THEN form["status"] ELSE t.status

AskedDue(form, t) ==
  IF Truthy(Get(form, "due_date")) THEN DateTable[form["due_date"]] ELSE t.due_date

WellFormedDue(form) ==
  Truthy(Get(form, "due_date")) => form["due_date"] \in DOMAIN DateTable

C1_Step ==
  PostBy(req', "vendor", "update_task") =>
    LET V == users[req'.uid]
        T == tasks[req'.task_id]
    IN IF T.vendor_id # V.id
         THEN resp'.code = 403 /\ UNCHANGED <<tasks, payments, deliveries>>
         ELSE /\ resp'.code # 403
              /\ resp'.code = 302 <=> WellFormedDue(req'.form)
              /\ resp'.code = 302 =>
                   /\ tasks'[req'.task_id].status = AskedStatus(req'.form, T)
                   /\ tasks'[req'.task_id].due_date = AskedDue(req'.form, T)

\* C1: a vendor's update_task request on task T is answered with 403, and
\* changes nothing, when T.vendor_id is not the vendor's id; when it is, the
\* request is never answered with 403 and (its date being well formed) stores
\* the status and due date it asks for.
C1_VendorOwnTask == [][C1_Step]_vars

\* C1's case: vendor acme has set its own task 2 to Completed
C1_Witness ==
  /\ PostBy(req, "vendor", "update_task")
  /\ req.task_id = 2
  /\ tasks[2].vendor_id = req.uid
  /\ resp.code = 302
  /\ Get(req.form, "status") = "Completed"
  /\ tasks[2].status = "Completed"

\* C1's other case: vendor acme has been refused on bolt's task 1
C1_Refused ==
  /\ PostBy(req, "vendor", "update_task")
  /\ tasks[req.task_id].vendor_id # req.uid
  /\ resp.code = 403

\* the numbers in an update_delivery form are well formed
WellFormedQty(form) ==
  \A k \in {"shipped_qty", "received_qty"} :
    Truthy(Get(form, k)) => form[k] \in DOMAIN FloatTable

\* row d holds every field the update_delivery form supplies
HoldsSupplied(d, form) ==
  /\ Truthy(Get(form, "to_branch")) => d.to_branch = form["to_branch"]
  /\ Truthy(Get(form, "shipped_qty")) => d.shipped_qty = FloatTable[form["shipped_qty"]]
  /\ Truthy(Get(form, "received_qty")) => d.received_qty = FloatTable[form["received_qty"]]
  /\ "damage_notes" \in DOMAIN form => d.damage_notes = form["damage_notes"]
  /\ "deliv_status" \in DOMAIN form => d.status = form["deliv_status"]

C2_Step ==
  LET did == FirstByTask(deliveries, req'.task_id)
  IN (PostBy(req', "branch", "update_delivery") /\ did # 0) =>
       LET B == users[req'.uid]
           D == deliveries[did]
       IN IF D.to_branch # B.branch_name
            THEN resp'.code = 403 /\ UNCHANGED <<tasks, payments, deliveries>>
            ELSE /\ resp'.code # 403
                 /\ resp'.code = 302 <=> WellFormedQty(req'.form)
                 /\ resp'.code = 302 => HoldsSupplied(deliveries'[did], req'.form)

\* C2: a branch user's update_delivery request on delivery D is answered with
\* 403, and changes nothing, when D.to_branch is not the user's branch_name at
\* the time of the request; when it is, the request is never answered with 403
\* and (its numbers being well formed) stores the fields it supplies.
C2_BranchOwnDelivery == [][C2_Step]_vars

\* C2's case: branch user north has recorded a shipment on the delivery bound
\* for North Branch
C2_Witness ==
  /\ PostBy(req, "branch", "update_delivery")
  /\ resp.code = 302
  /\ Get(req.form, "shipped_qty") = "5"
  /\ deliveries[1].to_branch = users[req.uid].branch_name
  /\ deliveries[1].shipped_qty = 5
  /\ deliveries[1].damage_notes = "dented"

\* C2's other case: north has been refused on a delivery reassigned to South Branch
C2_Refused ==
  /\ PostBy(req, "branch", "update_delivery")
  /\ deliveries[1].to_branch = "South Branch"
  /\ resp.code = 403

\* the Access Policy table's rows for /tasks/<id>: the roles a marker is for
Allowed(marker) ==
  IF marker = "update_task" THEN {"admin", "procurement", "vendor"}
  ELSE IF marker = "update_payment" THEN {"admin", "procurement"}
  ELSE {"admin", "procurement", "branch"}

Markers == {"update_task", "update_payment", "update_delivery"}

C5_Step ==
  \A marker \in Markers, role \in {"vendor", "branch"} :
    (PostBy(req', role, marker) /\ role \notin Allowed(marker)) =>
      resp'.code = 403 /\ UNCHANGED <<users, tasks, payments, deliveries>>

\* C5: a POST to /tasks/<id> that carries a marker the Access Policy table does
\* not allow the user's role (update_payment by a vendor or branch user,
\* update_task by a branch user, update_delivery by a vendor) is answered with
\* 403 and changes no record.
C5_DisallowedForbidden == [][C5_Step]_vars

C6_Step ==
  (/\ req'.handler = "task_view"
   /\ req'.method = "POST"
   /\ FirstByTask(payments, req'.task_id) # 0
   /\ FirstByTask(deliveries, req'.task_id) # 0
   /\ resp'.code \in {403, 500}) =>
    UNCHANGED <<tasks, payments, deliveries>>

\* C6: a POST to /tasks/<id>, of a task that has its Payment and Delivery, that
\* ends in an error (403, or the 500 of a malformed number or date) leaves the
\* Task, its Payment and its Delivery as they were before the request.
C6_NoPartialCommit == [][C6_Step]_vars

\* the numbers and dates in an update_payment form are well formed
SuppliedAmount(form) == Truthy(Get(form, "amount"))

SuppliedDue(form) == Truthy(Get(form, "pay_due"))

SuppliedStatus(form) == "pay_status" \in DOMAIN form

\* the payment row an update_payment form asks for, updated_at aside
AskedPayment(form, pay) ==
  [pay EXCEPT
     !.amount = IF SuppliedAmount(form) THEN FloatTable[form["amount"]] ELSE @,
     !.due_date = IF SuppliedDue(form) THEN DateTable[form["pay_due"]] ELSE @,
     !.status = IF SuppliedStatus(form) THEN form["pay_status"] ELSE @]

\* an update_payment request by admin or procurement on a task with a payment
\* has just been answered with the redirect of line 204
PaymentUpdated(r, rsp) ==
  /\ \/ PostBy(r, "admin", "update_payment")
     \/ PostBy(r, "procurement", "update_payment")
  /\ FirstByTask(payments, r.task_id) # 0
  /\ rsp.code = 302

C9_OriginalStep ==
  PaymentUpdated(req', resp') =>
    LET pid == FirstByTask(payments, req'.task_id)
    IN payments'[pid] = [AskedPayment(req'.form, payments[pid]) EXCEPT !.updated_at = now]

\* C9 as stated: an update_payment request by admin or procurement sets exactly
\* the supplied fields, leaves the others, and refreshes updated_at every time.
C9_RefreshedEveryTime == [][C9_OriginalStep]_vars

C9_Step ==
  PaymentUpdated(req', resp') =>
    LET pid == FirstByTask(payments, req'.task_id)
        asked == AskedPayment(req'.form, payments[pid])
    IN payments'[pid] =
         IF asked = payments[pid] THEN payments[pid] ELSE [asked EXCEPT !.updated_at = now]

\* C9, amended: an update_payment request by admin or procurement sets exactly
\* the supplied fields and leaves the others; updated_at is refreshed when the
\* request changes a field's value, and keeps its prior value when it changes none.
C9_RefreshedOnChange == [][C9_Step]_vars

\* C9's case: on a later day the buyer has set only the status, to Paid; the
\* amount is still 6 and updated_at is the day of the request
C9_Witness ==
  /\ PaymentUpdated(req, resp)
  /\ users[req.uid].role = "procurement"
  /\ DOMAIN req.form = {"update_payment", "amount", "pay_status"}
  /\ now = 2
  /\ payments[1] = [Payment(2, 6, 2) EXCEPT !.status = "Paid"]

\* the dashboard has just been rendered for the user of the request
Dashboard == req.handler = "index" /\ resp.code = 200

\* the payments the Access Policy table lets `user` see
VisiblePayments(user) ==
  IF user.role \in {"admin", "procurement"} THEN Ids(payments)
  ELSE IF user.role = "vendor"
    THEN {p \in Ids(payments) : tasks[payments[p].task_id].vendor_id = user.id}
  ELSE {p \in Ids(payments) :
          \E d \in Ids(deliveries) : /\ deliveries[d].task_id = payments[p].task_id
                                     /\ deliveries[d].to_branch = user.branch_name}

\* C8: the dashboard's overdue count is the number of payments visible to the
\* user with status other than Paid and a due date before today, whatever
\* their stored status.
C8_OverdueCount ==
  Dashboard =>
    resp.overdue =
      Cardinality({p \in VisiblePayments(users[req.uid]) :
                     /\ payments[p].status # "Paid"
                     /\ payments[p].due_date # NoDate
                     /\ payments[p].due_date < now})

\* C8's case: on 2024-06-03 the admin's dashboard counts one overdue payment:
\* the one due on 06-02 and stored as Pending, and not the one due on 06-03
\* and stored as Overdue (nor, before that, the one with no due date)
C8_Witness ==
  /\ Dashboard
  /\ users[req.uid].role = "admin"
  /\ now = 3
  /\ payments[1].status = "Pending" /\ payments[1].due_date = 2
  /\ payments[2].status = "Overdue" /\ payments[2].due_date = 3
  /\ resp.overdue = 1

\* C10: a vendor's dashboard lists exactly the tasks with the vendor's id and
\* only payments and deliveries of those tasks; a branch user's lists exactly
\* the deliveries bound for the user's branch and only tasks and payments of
\* those deliveries; admin's and procurement's list every record.
C10_DashboardScope ==
  Dashboard =>
    LET user == users[req.uid]
        ts == Range(resp.tasks)
        ps == Range(resp.payments)
        ds == Range(resp.deliveries)
    IN IF user.role \in {"admin", "procurement"}
         THEN ts = Ids(tasks) /\ ps = Ids(payments) /\ ds = Ids(deliveries)
       ELSE IF user.role = "vendor"
         THEN /\ ts = {t \in Ids(tasks) : tasks[t].vendor_id = user.id}
              /\ \A p \in ps : payments[p].task_id \in ts
              /\ \A d \in ds : deliveries[d].task_id \in ts
       ELSE /\ ds = {d \in Ids(deliveries) : deliveries[d].to_branch = user.branch_name}
            /\ \A t \in ts : \E d \in ds : deliveries[d].task_id = t
            /\ \A p \in ps : \E d \in ds : deliveries[d].task_id = payments[p].task_id

\* C10's case: vendor bolt's dashboard lists tasks 1 and 3, and of the two
\* payments and two deliveries only those of task 3
C10_Witness ==
  /\ Dashboard
  /\ users[req.uid].username = "bolt"
  /\ resp.tasks = <<1, 3>>
  /\ resp.payments = <<2>>
  /\ resp.deliveries = <<2>>

\* C10's other case: after task 3's delivery is reassigned to North Branch,
\* branch user north's dashboard lists both deliveries, tasks 2 and 3 and both payments
C10_BranchCase ==
  /\ Dashboard
  /\ users[req.uid].role = "branch"
  /\ resp.deliveries = <<1, 2>>
  /\ resp.tasks = <<2, 3>>
  /\ resp.payments = <<1, 2>>

\* the user a request was sent by, NoUser without a session
Sender(r) == IF r.uid \in Ids(users) THEN users[r.uid] ELSE NoUser

Protected == {"index", "users", "task_new", "task_view"}

C11_Step ==
  LET user == Sender(req')
  IN /\ (req'.handler \in Protected /\ user = NoUser) =>
          resp' = Response(302, "login") /\ UNCHANGED store
     /\ (req'.handler = "users" /\ user # NoUser /\ user.role # "admin") =>
          resp'.code = 403 /\ UNCHANGED store
     /\ (req'.handler = "task_new" /\ user # NoUser
            /\ user.role \notin {"admin", "procurement"}) =>
          resp'.code = 403 /\ UNCHANGED store
     /\ users' # users => req'.handler = "users" /\ user.role = "admin"
     /\ tasks' # tasks /\ Len(tasks') > Len(tasks) =>
          req'.handler = "task_new" /\ user.role \in {"admin", "procurement"}

\* C11: a request to a protected route without an authenticated session is
\* redirected to /login and changes no record; a request to /users by a user
\* who is not admin, or to /tasks/new by a user who is neither admin nor
\* procurement, is answered with 403 and changes no record; a User is created
\* only by an admin's request and a Task only by an admin's or procurement's.
C11_RouteGate == [][C11_Step]_vars

\* C11's case: a vendor's registration request has been refused, after an
\* admin's was accepted
C11_Witness ==
  /\ req.handler = "users"
  /\ req.method = "POST"
  /\ Sender(req).role = "vendor"
  /\ resp.code = 403
  /\ Len(users) = 2

\* C11's other cases: a creation request without a session, and a branch user's
C11_Anonymous ==
  /\ req.handler = "task_new" /\ req.method = "POST" /\ req.uid = 0
  /\ resp = Response(302, "login")

C11_BranchRefused ==
  /\ req.handler = "task_new" /\ req.method = "POST"
  /\ Sender(req).role = "branch"
  /\ resp.code = 403

\* a login form has just been posted
LoginPosted(r) == r.handler = "login" /\ r.method = "POST"

\* the response of a refused login: the login page again, with the notice
\* 'Invalid credentials'
InvalidCredentials == Response(200, "login")

\* the users whose name is `username` and whose password is form's
Verified(form, username) ==
  {i \in Ids(users) : /\ users[i].username = username
                      /\ users[i].password_hash = GenerateHash(form["password"])}

C12_ExactStep ==
  /\ LoginPosted(req') =>
       IF Verified(req'.form, req'.form["username"]) = {}
         THEN session' = session /\ resp' = InvalidCredentials
         ELSE session' \in Verified(req'.form, req'.form["username"])
  /\ (session' # session /\ session' # 0) =>
       LoginPosted(req') /\ session' \in Verified(req'.form, req'.form["username"])

\* C12 as stated: a login attempt whose username is no user's, or whose
\* password is not that user's, yields InvalidCredentials and leaves the
\* session as it was; the session's user id is set only to the id of a user
\* whose password the request verified.
C12_ExactUsername == [][C12_ExactStep]_vars

C12_Step ==
  /\ LoginPosted(req') =>
       IF Verified(req'.form, Strip(req'.form["username"])) = {}
         THEN session' = session /\ resp' = InvalidCredentials
         ELSE session' \in Verified(req'.form, Strip(req'.form["username"]))
  /\ (session' # session /\ session' # 0) =>
       LoginPosted(req') /\ session' \in Verified(req'.form, Strip(req'.form["username"]))

\* C12, amended: a login attempt whose username, with surrounding whitespace
\* removed, is no user's, or whose password is not that user's, yields
\* InvalidCredentials and leaves the session as it was; the session's user id
\* is set only to the id of a user whose password the request verified.
C12_StrippedUsername == [][C12_Step]_vars

\* C12's case: a wrong password for admin has been refused and the session is
\* still unauthenticated
C12_Witness ==
  /\ LoginPosted(req)
  /\ req.form = Credentials("admin", "guess")
  /\ resp = InvalidCredentials
  /\ session = 0

\* C12's other cases: an unknown username refused while another user is logged
\* in, and a padded username accepted
C12_UnknownRefused ==
  /\ LoginPosted(req)
  /\ FirstByUsername(req.form["username"]) = 0
  /\ req.form["username"] = "north"
  /\ resp = InvalidCredentials
  /\ session = 1

C12_PaddedAccepted ==
  /\ LoginPosted(req)
  /\ req.form["username"] = " admin "
  /\ req.uid = 0
  /\ session = 1

\* the row an update_payment request by `user` leaves when it runs alone on `row`
RunPayment(row, user, form) ==
  UpdatePayment([tasks |-> tasks, payments |-> <<row>>, deliveries |-> deliveries],
                user, 1, form, now).st.payments[1]

\* the same for update_delivery
RunDelivery(row, user, form) ==
  UpdateDelivery([tasks |-> tasks, payments |-> payments, deliveries |-> <<row>>],
                 user, 1, form, now).st.deliveries[1]

\* the request that has just been answered with the redirect of line 204
\* carried `marker`
Committed(r, rsp, marker) ==
  /\ r.handler = "task_view" /\ r.method = "POST"
  /\ rsp = Response(302, "task_view")
  /\ marker \in DOMAIN r.form

\* request A has just committed, alone, on the row that request B, in flight,
\* had loaded, and this step is B's commit: the row is then what A and B leave
\* when they run one after the other, in one order or the other
C13_Step ==
  \A B \in inflight :
    LET A == req
        a == users[A.uid]
        b == users[B.uid]
    IN (/\ inflight' = inflight \ {B}
        /\ A.task_id = B.task_id)
       =>
       /\ (/\ Committed(A, resp, "update_payment")
           /\ Committed(req', resp', "update_payment")
           /\ payments[B.pid] = RunPayment(B.pay, a, A.form))
          => payments'[B.pid] \in
               {RunPayment(RunPayment(B.pay, a, A.form), b, B.form),
                RunPayment(RunPayment(B.pay, b, B.form), a, A.form)}
       /\ (/\ Committed(A, resp, "update_delivery")
           /\ Committed(req', resp', "update_delivery")
           /\ deliveries[B.did] = RunDelivery(B.deliv, a, A.form))
          => deliveries'[B.did] \in
               {RunDelivery(RunDelivery(B.deliv, a, A.form), b, B.form),
                RunDelivery(RunDelivery(B.deliv, b, B.form), a, A.form)}

\* C13: when two update requests on the same Payment (or the same Delivery)
\* row run concurrently, the row they leave is the row that running the two
\* one after the other, in some order, leaves.
C13_Serializable == [][C13_Step]_vars

TaskStatuses == {"Pending", "In Progress", "Completed", "Cancelled"}

PaymentStatuses == {"Pending", "Paid", "Overdue"}

DeliveryStatuses == {"Not Shipped", "Shipped", "Received"}

\* C14: in every reachable state each Task's status is one of Pending, In
\* Progress, Completed, Cancelled, each Payment's one of Pending, Paid, Overdue
\* and each Delivery's one of Not Shipped, Shipped, Received: an update that
\* supplies another value stores nothing.
C14_StatusEnumerated ==
  /\ \A i \in Ids(tasks) : tasks[i].status \in TaskStatuses
  /\ \A i \in Ids(payments) : payments[i].status \in PaymentStatuses
  /\ \A i \in Ids(deliveries) : deliveries[i].status \in DeliveryStatuses

\* a POST to /tasks/<id> whose marker is update_task
TaskUpdateRequest(r) ==
  /\ r.handler = "task_view" /\ r.method = "POST"
  /\ DOMAIN r.form \cap Markers = {"update_task"}

C18_Step ==
  TaskUpdateRequest(req') =>
    /\ UNCHANGED <<users, payments, deliveries>>
    /\ Len(tasks') = Len(tasks)
    /\ \A i \in Ids(tasks) :
         /\ [tasks'[i] EXCEPT !.status = "", !.due_date = NoDate]
              = [tasks[i] EXCEPT !.status = "", !.due_date = NoDate]
         /\ i # req'.task_id => tasks'[i] = tasks[i]
         /\ "status" \notin DOMAIN req'.form => tasks'[i].status = tasks[i].status
         /\ ~Truthy(Get(req'.form, "due_date")) => tasks'[i].due_date = tasks[i].due_date

\* C18: a request whose marker is update_task changes nothing but the status
\* and due_date of its Task: of the two, the one it does not specify keeps its
\* value; title, vendor_id, quantity, unit, price_per_unit, created_by and the
\* rest of the Task are unchanged, and so are every Payment and Delivery.
C18_TaskFrame == [][C18_Step]_vars

\* C18's case: vendor acme has set the due date of its task 2, which it had
\* completed before: the status is kept, and the payment and the delivery are
\* as they were created
C18_Witness ==
  /\ TaskUpdateRequest(req)
  /\ Sender(req).role = "vendor"
  /\ req.task_id = 2
  /\ DOMAIN req.form = {"update_task", "due_date"}
  /\ resp.code = 302
  /\ tasks[2] = [ViewTasks[2] EXCEPT !.status = "Completed", !.due_date = 2]
  /\ payments = <<Payment(2, 6, 1)>>
  /\ deliveries = <<Delivery(2, "North Branch", 1)>>

\* C19: after a task is created with the to_branch input absent or empty, the
\* to_branch of its Delivery is "Main Branch".
C19_DefaultBranch ==
  (Created /\ ~Truthy(Get(req.form, "to_branch"))) =>
    \A i \in Ids(deliveries) :
      deliveries[i].task_id = req.task_id => deliveries[i].to_branch = "Main Branch"

\* the tasks the Access Policy table lets `user` see
VisibleTasks(user) ==
  IF user.role \in {"admin", "procurement"} THEN Ids(tasks)
  ELSE IF user.role = "vendor" THEN {t \in Ids(tasks) : tasks[t].vendor_id = user.id}
  ELSE {t \in Ids(tasks) :
          \E d \in Ids(deliveries) : /\ deliveries[d].task_id = t
                                     /\ deliveries[d].to_branch = user.branch_name}

\* the task page has just been rendered for the user of the request
TaskPage == req.handler = "task_view" /\ req.method = "GET" /\ resp.code = 200

\* C20: GET /tasks/<id> shows a vendor only tasks whose vendor_id is the
\* vendor's id, and a branch user only tasks whose delivery is bound for the
\* user's branch: the tasks of the user's dashboard.
C20_TaskPageScope ==
  TaskPage =>
    /\ Range(resp.tasks) \subseteq VisibleTasks(Sender(req))
    /\ Range(resp.tasks) \subseteq Range(DashTasks(Sender(req)))

-----------------------------------------------------------------------------
(* SpecGrow: registrations, creations and updates over several days *)

GrowLogins == {c \in SeedLogins : c.username \in {"admin", "acme"}}

GrowRegistrations == {f \in Registrations : f.username \in {"admin", "acme"}}

NextGrow ==
  \/ \E c \in GrowLogins : Login("POST", c)
  \/ \E f \in GrowRegistrations : Users("POST", f)
  \/ TaskNew("POST", Order)
  \/ \E r \in inflight : TaskNewShells(r)
  \/ \E tid \in 1..MaxTasks, f \in FirstUpdates : TaskView("POST", tid, f)
  \/ Tick

SpecGrow == Init /\ [][NextGrow]_vars

C15_Step ==
  /\ Len(users') >= Len(users)
  /\ \A i \in Ids(users) : users'[i].id = users[i].id /\ users'[i].role = users[i].role
  /\ Len(tasks') >= Len(tasks)
  /\ \A i \in Ids(tasks) : tasks'[i].created_at = tasks[i].created_at

\* C15: in every step, every existing User is still there with the same role,
\* every existing Task is still there, and its created_at is what it was.
C15_Monotone == [][C15_Step]_vars

\* C15's case: a second user has been registered, and on a later day the
\* admin has updated the task created on the first day
C15_Witness ==
  /\ Len(users) >= 2
  /\ users[1].role = "admin"
  /\ Len(tasks) >= 1
  /\ tasks[1].created_at = 1
  /\ tasks[1].status = "Completed"
  /\ now > 1
  /\ req.handler = "task_view" /\ req.method = "POST"
  /\ Sender(req).role = "admin"
  /\ resp.code = 302

\* 1 when the step changes x, 0 when it does not
Changes(x, y) == IF x # y THEN 1 ELSE 0

C16_Step ==
  (req'.handler = "task_view" /\ req'.method = "POST") =>
    Changes(tasks, tasks') + Changes(payments, payments')
      + Changes(deliveries, deliveries') <= 1

\* C16: a POST to /tasks/<id> changes at most one of the Task, its Payment and
\* its Delivery: the request's marker selects the one that it changes.
C16_OneEntityPerRequest == [][C16_Step]_vars

\* an update_delivery request by a user the Access Policy allows, on a task
\* with a delivery, has just been answered with the redirect of line 204
DeliveryUpdated(r, rsp) ==
  /\ \E role \in Allowed("update_delivery") : PostBy(r, role, "update_delivery")
  /\ FirstByTask(deliveries, r.task_id) # 0
  /\ rsp.code = 302

\* row d2 keeps the value row d has in every field the form does not supply
KeepsUnsupplied(d, d2, form) ==
  /\ d2.task_id = d.task_id
  /\ ~Truthy(Get(form, "to_branch")) => d2.to_branch = d.to_branch
  /\ ~Truthy(Get(form, "shipped_qty")) => d2.shipped_qty = d.shipped_qty
  /\ ~Truthy(Get(form, "received_qty")) => d2.received_qty = d.received_qty
  /\ "damage_notes" \notin DOMAIN form => d2.damage_notes = d.damage_notes
  /\ "deliv_status" \notin DOMAIN form => d2.status = d.status

C17_Step ==
  DeliveryUpdated(req', resp') =>
    LET did == FirstByTask(deliveries, req'.task_id)
    IN /\ HoldsSupplied(deliveries'[did], req'.form)
       /\ KeepsUnsupplied(deliveries[did], deliveries'[did], req'.form)

\* C17: an allowed update_delivery request stores the fields it supplies among
\* to_branch, shipped_qty, received_qty, damage_notes and status, and every
\* field it does not supply, damage_notes included, keeps its prior value.
C17_DeliveryFrame == [][C17_Step]_vars

\* this step is the commit of the in-flight update_delivery request r, sent by
\* a branch user, and it writes the delivery
BranchWrites(r) ==
  /\ inflight' = inflight \ {r}
  /\ users[r.uid].role = "branch"
  /\ "update_delivery" \in DOMAIN r.form
  /\ r.did # 0
  /\ deliveries'[r.did] # deliveries[r.did]

C21_Step ==
  \A r \in inflight :
    BranchWrites(r) => deliveries[r.did].to_branch = users[r.uid].branch_name

\* C21: a branch user's update_delivery request that runs concurrently with a
\* request reassigning the delivery's to_branch writes the delivery only if
\* the stored to_branch, at the commit and before the write, is the user's
\* branch_name: a branch user never overwrites a delivery that is at that
\* moment bound for another branch.
C21_CheckedAtCommit == [][C21_Step]_vars

====
